---------------------------- MODULE Spec2Model ----------------------------
(***************************************************************************)
(* A model of quantgov.nlp (src/quantgov/nlp.py): the start-up probing of  *)
(* the optional NLP services, the registry of analyzers, the capability    *)
(* gates, and the nine analyzers' get_columns / process_document.          *)
(*                                                                         *)
(* Texts are sequences of one-character strings, so that the regular       *)
(* expressions of the source are evaluated character by character.  A row  *)
(* is a sequence of tagged values: [key |-> k] for an element of           *)
(* doc.index, [int |-> n] for an integer, [num |-> n, den |-> d] for the    *)
(* float n/d, [str |-> s] for a string and [none |-> TRUE] for None.        *)
(***************************************************************************)
EXTENDS Integers, Sequences, FiniteSets, TLC

VARIABLES
    phase,      \* "boot" | "loaded" | "import_failed": the import of the module
    NLTK,       \* the flag NLTK       (FALSE models None)
    textblob,   \* the name textblob   (FALSE models None)
    textstat,   \* the name textstat   (FALSE models None)
    commands,   \* the dict commands: the set of its keys, each bound to its class
    lemmas,     \* ShannonEntropy.lemmas, the class-level cache word -> lemma
    call,       \* the dispatcher's current process_document call and its outcome
    threads     \* worker threads running ShannonEntropy.process_document

vars == <<phase, NLTK, textblob, textstat, commands, lemmas, call, threads>>

-----------------------------------------------------------------------------
(* Bounds of the model *)

MaxTextLen == 5
MaxTerms == 2
MaxPieces == 4
MaxCalls == 2
MaxSentences == 3
MaxSentenceWords == 2
MaxPrecision == 1
MaxThreshold == 2
MaxScore == 3
ScoreDen == 4

-----------------------------------------------------------------------------
(* Values *)

None == [none |-> TRUE]
IntV(n) == [int |-> n]
Key(k) == [key |-> k]
Rat(n, d) == [num |-> n, den |-> d]
StrV(s) == [str |-> s]

Abs(n) == IF n < 0 THEN -n ELSE n

RECURSIVE SeqsUpTo(_, _)
SeqsUpTo(S, n) ==
    IF n = 0 THEN {<<>>}
    ELSE LET shorter == SeqsUpTo(S, n - 1)
         IN  shorter \cup {Append(s, x) : s \in shorter, x \in S}

RECURSIVE Concat(_)
Concat(parts) ==
    IF parts = <<>> THEN <<>> ELSE Head(parts) \o Concat(Tail(parts))

-----------------------------------------------------------------------------
(* Characters: what str.lower, str.split, str.splitlines, \w, \s and \b     *)
(* see of a text.                                                          *)

LowerLetters ==
    <<"a", "b", "c", "d", "e", "f", "g", "h", "i", "j", "k", "l", "m",
      "n", "o", "p", "q", "r", "s", "t", "u", "v", "w", "x", "y", "z">>
UpperLetters ==
    <<"A", "B", "C", "D", "E", "F", "G", "H", "I", "J", "K", "L", "M",
      "N", "O", "P", "Q", "R", "S", "T", "U", "V", "W", "X", "Y", "Z">>

Range(s) == {s[i] : i \in DOMAIN s}

UpperSet == Range(UpperLetters)
WordChars == Range(LowerLetters) \cup UpperSet \cup {"_", "0", "1"}
Whitespace == {" ", "\n", "\t"}
LineBreaks == {"\n"}

\* str.lower() on one character
LowerChar(c) ==
    IF c \in UpperSet
    THEN LowerLetters[CHOOSE i \in DOMAIN UpperLetters : UpperLetters[i] = c]
    ELSE c

lower(text) == [i \in DOMAIN text |-> LowerChar(text[i])]

\* \w at position pos of text; FALSE outside the text
IsWordAt(text, pos) ==
    /\ pos >= 1
    /\ pos <= Len(text)
    /\ text[pos] \in WordChars

\* \b between the characters pos-1 and pos of text
WordBoundary(text, pos) == IsWordAt(text, pos - 1) # IsWordAt(text, pos)

\* ' '.join(text.split()): whitespace runs become one space, the ends are stripped
RECURSIVE split_join(_, _, _)
split_join(text, pos, out) ==
    IF pos > Len(text) THEN out
    ELSE IF text[pos] \in Whitespace
    THEN split_join(text, pos + 1, out)
    ELSE IF out # <<>> /\ pos > 1 /\ text[pos - 1] \in Whitespace
    THEN split_join(text, pos + 1, out \o <<" ", text[pos]>>)
    ELSE split_join(text, pos + 1, Append(out, text[pos]))

\* ' '.join(text.splitlines()): every line break becomes one space, except a
\* line break that ends the text, which splitlines drops
splitlines_join(text) ==
    LET n == IF text # <<>> /\ text[Len(text)] \in LineBreaks
             THEN Len(text) - 1 ELSE Len(text)
    IN  [i \in 1..n |-> IF text[i] \in LineBreaks THEN " " ELSE text[i]]

-----------------------------------------------------------------------------
(* Outcomes of a call.  called is the set of external services the call    *)
(* invoked; lemmas is ShannonEntropy.lemmas as the call leaves it.          *)

Returned(row, called, cache) ==
    [outcome |-> "row", row |-> row, error |-> "",
     called |-> called, lemmas |-> cache]
ReturnedNone(called, cache) ==
    [outcome |-> "none", row |-> <<>>, error |-> "",
     called |-> called, lemmas |-> cache]
Raised(err, called, cache) ==
    [outcome |-> "raise", row |-> <<>>, error |-> err,
     called |-> called, lemmas |-> cache]

\* collections.Counter(items)[x]
RECURSIVE Count(_, _)
Count(items, x) ==
    IF items = <<>> THEN 0
    ELSE (IF Head(items) = x THEN 1 ELSE 0) + Count(Tail(items), x)

\* sum(ns) of a sequence of integers
RECURSIVE Sum(_)
Sum(ns) == IF ns = <<>> THEN 0 ELSE Head(ns) + Sum(Tail(ns))

-----------------------------------------------------------------------------
(* WordCounter *)

\* the default of --word_pattern, r'\b\w+\b': findall returns the maximal runs
\* of word characters
RECURSIVE findall_words(_, _, _)
findall_words(text, pos, cur) ==
    IF pos > Len(text)
    THEN IF cur = <<>> THEN <<>> ELSE <<cur>>
    ELSE IF text[pos] \in WordChars
    THEN findall_words(text, pos + 1, Append(cur, text[pos]))
    ELSE (IF cur = <<>> THEN <<>> ELSE <<cur>>)
         \o findall_words(text, pos + 1, <<>>)

WordCounter_get_columns(args) == <<"words">>

WordCounter_process_document(doc) ==
    Returned(doc.index \o <<IntV(Len(findall_words(doc.text, 1, <<>>)))>>,
             {}, lemmas)

-----------------------------------------------------------------------------
(* OccurrenceCounter, with the default --pattern r'\b(?P<match>{})\b' and   *)
(* terms that are literal strings                                           *)

\* sorted(terms, key=len, reverse=True): stable, so terms of one length keep
\* the caller's order
RECURSIVE InsertByLen(_, _)
InsertByLen(t, s) ==
    IF s = <<>> THEN <<t>>
    ELSE IF Len(Head(s)) >= Len(t) THEN <<Head(s)>> \o InsertByLen(t, Tail(s))
    ELSE <<t>> \o s

RECURSIVE SortFrom(_, _)
SortFrom(terms, done) ==
    IF terms = <<>> THEN done
    ELSE SortFrom(Tail(terms), InsertByLen(Head(terms), done))

\* a mutant of sorted_by_len: the terms are left in the caller's order
sorted_by_len_unsorted(terms) == terms

sorted_by_len(terms) == SortFrom(terms, <<>>)

\* the literal t matches at pos and \b holds on both sides
TermMatchesAt(t, text, pos) ==
    /\ pos + Len(t) - 1 <= Len(text)
    /\ SubSeq(text, pos, pos + Len(t) - 1) = t
    /\ WordBoundary(text, pos)
    /\ WordBoundary(text, pos + Len(t))

\* the alternation t1|t2|...: the first alternative, in order, with which the
\* whole pattern matches at pos; 0 when none does
FirstAlternative(alts, text, pos) ==
    LET ok == {i \in DOMAIN alts : TermMatchesAt(alts[i], text, pos)}
    IN  IF ok = {} THEN 0 ELSE CHOOSE i \in ok : \A j \in ok : i <= j

\* combined_pattern.finditer(text): the leftmost, non-overlapping matches in
\* order, each with its start and its group 'match'
RECURSIVE finditer(_, _, _)
finditer(alts, text, pos) ==
    IF pos > Len(text) THEN <<>>
    ELSE LET i == FirstAlternative(alts, text, pos)
         IN  IF i = 0 THEN finditer(alts, text, pos + 1)
             ELSE <<[start |-> pos, match |-> alts[i]]>>
                  \o finditer(alts, text, pos + Len(alts[i]))

\* a mutant of OccurrenceCounter.get_columns: the total label is left out
OccurrenceCounter_get_columns_terms_only(args) == args.terms

OccurrenceCounter_get_columns(args) ==
    IF args.total_label # None
    THEN args.terms \o <<args.total_label>>
    ELSE args.terms

\* text = ' '.join(doc.text.split()).lower()
normalized(doc) == lower(split_join(doc.text, 1, <<>>))

\* the matches of the combined pattern of the terms, longest term first
term_matches(doc, terms) == finditer(sorted_by_len(terms), normalized(doc), 1)

\* term_counts[t]
term_count(matches, t) ==
    Cardinality({k \in DOMAIN matches : matches[k].match = t})

\* a mutant of OccurrenceCounter.process_document: the total is len(term_counts),
\* the number of distinct terms matched, not sum(term_counts.values())
OccurrenceCounter_process_document_len(doc, terms, total_label) ==
    LET matches == term_matches(doc, terms)
        per_term == [i \in DOMAIN terms |-> IntV(term_count(matches, terms[i]))]
        total == Cardinality({matches[k].match : k \in DOMAIN matches})
    IN  IF total_label # None
        THEN Returned(doc.index \o per_term \o <<IntV(total)>>, {}, lemmas)
        ELSE Returned(doc.index \o per_term, {}, lemmas)

OccurrenceCounter_process_document(doc, terms, total_label) ==
    LET matches == term_matches(doc, terms)
        per_term == [i \in DOMAIN terms |-> IntV(term_count(matches, terms[i]))]
    IN  IF total_label # None
        THEN Returned(doc.index \o per_term \o <<IntV(Len(matches))>>, {}, lemmas)
        ELSE Returned(doc.index \o per_term, {}, lemmas)

-----------------------------------------------------------------------------
(* ConditionalCounter and DistributionalPhraseCounter *)

\* the regular expression token \s+
WS == "\\s+"

\* ConditionalCounter.pattern: the alternatives of r'\b(...)\b', in order
conditional_alternatives ==
    <<
      <<"i", "f">>,
      <<"b", "u", "t">>,
      <<"e", "x", "c", "e", "p", "t">>,
      <<"p", "r", "o", "v", "i", "d", "e", "d">>,
      <<"w", "h", "e", "n">>,
      <<"w", "h", "e", "r", "e">>,
      <<"w", "h", "e", "n", "e", "v", "e", "r">>,
      <<"u", "n", "l", "e", "s", "s">>,
      <<"n", "o", "t", "w", "i", "t", "h", "s", "t", "a", "n", "d", "i", "n", "g">>,
      <<"i", "n", WS, "t", "h", "e", WS, "e", "v", "e", "n", "t">>,
      <<"i", "n", WS, "n", "o", WS, "e", "v", "e", "n", "t">>
    >>

\* the length of the whitespace run of text that starts at pos
RECURSIVE WhitespaceRun(_, _)
WhitespaceRun(text, pos) ==
    IF pos <= Len(text) /\ text[pos] \in Whitespace
    THEN 1 + WhitespaceRun(text, pos + 1)
    ELSE 0

\* one alternative matched from its k-th token at pos: the position after the
\* match, or 0.  \s+ takes the whole whitespace run: the token after it is a
\* letter, so no shorter run can match.
RECURSIVE match_tokens(_, _, _, _)
match_tokens(alt, k, text, pos) ==
    IF k > Len(alt) THEN pos
    ELSE IF alt[k] = WS
    THEN LET run == WhitespaceRun(text, pos)
         IN  IF run = 0 THEN 0 ELSE match_tokens(alt, k + 1, text, pos + run)
    ELSE IF pos <= Len(text) /\ text[pos] = alt[k]
    THEN match_tokens(alt, k + 1, text, pos + 1)
    ELSE 0

\* r'\b(alt)\b' at pos: the position after the match, or 0
AlternativeMatchesAt(alt, text, pos) ==
    LET e == match_tokens(alt, 1, text, pos)
    IN  IF e # 0 /\ WordBoundary(text, pos) /\ WordBoundary(text, e) THEN e ELSE 0

\* the end of the match of r'\b(a1|a2|...)\b' at pos, trying the alternatives
\* in order; 0 when none matches
PatternMatchEnd(alts, text, pos) ==
    LET ok == {i \in DOMAIN alts : AlternativeMatchesAt(alts[i], text, pos) # 0}
    IN  IF ok = {} THEN 0
        ELSE AlternativeMatchesAt(alts[CHOOSE i \in ok : \A j \in ok : i <= j],
                                  text, pos)

\* len(pattern.findall(text)): the leftmost, non-overlapping matches
RECURSIVE findall_count(_, _, _)
findall_count(alts, text, pos) ==
    IF pos > Len(text) THEN 0
    ELSE LET e == PatternMatchEnd(alts, text, pos)
         IN  IF e = 0 THEN findall_count(alts, text, pos + 1)
             ELSE 1 + findall_count(alts, text, e)

ConditionalCounter_get_columns(args) == <<"conditionals">>

\* a mutant of ConditionalCounter.process_document: the pattern is compiled with
\* re.IGNORECASE, as DistributionalPhraseCounter's is
ConditionalCounter_process_document_ignorecase(doc) ==
    Returned(doc.index \o <<IntV(findall_count(conditional_alternatives,
                                               lower(splitlines_join(doc.text)), 1))>>,
             {}, lemmas)

ConditionalCounter_process_document(doc) ==
    Returned(doc.index \o <<IntV(findall_count(conditional_alternatives,
                                               splitlines_join(doc.text), 1))>>,
             {}, lemmas)

\* DistributionalPhraseCounter.pattern, re.IGNORECASE | re.VERBOSE: of its
\* alternatives the model holds the single words of the first two lines,
\* (?:in)?equitable, (?:in)?equality, distributional, distributive, dignity,
\* minorities; the phrase alternatives are not modelled
distributional_alternatives ==
    <<
      <<"e", "q", "u", "i", "t", "a", "b", "l", "e">>,
      <<"i", "n", "e", "q", "u", "i", "t", "a", "b", "l", "e">>,
      <<"e", "q", "u", "a", "l", "i", "t", "y">>,
      <<"i", "n", "e", "q", "u", "a", "l", "i", "t", "y">>,
      <<"d", "i", "s", "t", "r", "i", "b", "u", "t", "i", "o", "n", "a", "l">>,
      <<"d", "i", "s", "t", "r", "i", "b", "u", "t", "i", "v", "e">>,
      <<"d", "i", "g", "n", "i", "t", "y">>,
      <<"m", "i", "n", "o", "r", "i", "t", "i", "e", "s">>
    >>

DistributionalPhraseCounter_get_columns(args) == <<"distributional_phrases">>

DistributionalPhraseCounter_process_document(doc) ==
    Returned(doc.index \o <<IntV(findall_count(distributional_alternatives,
                                               lower(splitlines_join(doc.text)), 1))>>,
             {}, lemmas)

-----------------------------------------------------------------------------
(* The capability gates: the decorated function runs only when the flag is  *)
(* set; otherwise the RuntimeError is raised before the function is entered *)

\* a mutant of check_nltk: the flag is tested after the decorated function ran
check_nltk_late(res) ==
    IF ~NLTK THEN Raised("Must install NLTK", res.called, res.lemmas) ELSE res

check_nltk(res) ==
    IF ~NLTK THEN Raised("Must install NLTK", {}, lemmas) ELSE res

check_textblob(res) ==
    IF ~textblob THEN Raised("Must install textblob", {}, lemmas) ELSE res

check_textstat(res) ==
    IF ~textstat THEN Raised("Must install teststat", {}, lemmas) ELSE res

-----------------------------------------------------------------------------
(* Floats.  A float is the fraction num/den; round(x, places) is the        *)
(* nearest multiple of 10^-places, a tie going to the even one (the ties    *)
(* the bounds allow are exactly representable doubles).                     *)

RECURSIVE Pow10(_)
Pow10(p) == IF p = 0 THEN 1 ELSE 10 * Pow10(p - 1)

\* the integer nearest to n/d for n >= 0, d > 0, a tie going to the even one
RoundHalfEven(n, d) ==
    LET q == n \div d
        r == n % d
    IN  IF 2 * r > d THEN q + 1
        ELSE IF 2 * r < d THEN q
        ELSE IF q % 2 = 0 THEN q ELSE q + 1

\* round(x, places) of the float x
round(x, places) ==
    LET k == RoundHalfEven(Abs(x.num) * Pow10(places), x.den)
    IN  Rat(IF x.num < 0 THEN -k ELSE k, Pow10(places))

\* x < n and x > n for a float x and an integer n
FloatLess(x, n) == x.num < n * x.den
FloatGreater(x, n) == x.num > n * x.den

\* int(x): truncation toward zero
int_of_float(x) ==
    IF x.num >= 0 THEN x.num \div x.den ELSE -((-x.num) \div x.den)

\* a --precision value: the default is an int, a command-line value a string;
\* truthy is what `if precision:` sees, places what int(precision) returns
PrecInt(n) == [truthy |-> n # 0, places |-> n]
PrecStr(n) == [truthy |-> TRUE, places |-> n]

-----------------------------------------------------------------------------
(* ShannonEntropy *)

EmptyCache == [w \in {} |-> <<>>]

\* textblob.Word(word).lemmatize(): the WordNet noun lemma, here the word
\* without a plural s
Word_lemmatize(word) ==
    IF Len(word) > 1 /\ word[Len(word)] = "s"
    THEN SubSeq(word, 1, Len(word) - 1)
    ELSE word

\* a mutant of CacheStore: the word itself is stored, not its lemma
CacheStore_word(cache, word, lemma) ==
    [w \in DOMAIN cache \cup {word} |-> IF w = word THEN word ELSE cache[w]]

\* ShannonEntropy.lemmas[word] = lemma
CacheStore(cache, word, lemma) ==
    [w \in DOMAIN cache \cup {word} |-> IF w = word THEN lemma ELSE cache[w]]

\* ShannonEntropy.lemmatize(word) on the cache: the lemma, the cache after it,
\* and whether textblob was called
lemmatize(word, cache) ==
    IF word \in DOMAIN cache
    THEN [lemma |-> cache[word], cache |-> cache, miss |-> FALSE]
    ELSE LET lemma == Word_lemmatize(word)
         IN  [lemma |-> lemma, cache |-> CacheStore(cache, word, lemma),
              miss |-> TRUE]

\* (ShannonEntropy.lemmatize(word) for word in words), left to right
RECURSIVE lemmatize_all(_, _, _, _)
lemmatize_all(words, cache, out, missed) ==
    IF words = <<>> THEN [lemmas |-> out, cache |-> cache, missed |-> missed]
    ELSE LET r == lemmatize(Head(words), cache)
         IN  lemmatize_all(Tail(words), r.cache, Append(out, r.lemma),
                           missed \/ r.miss)

\* [lemma for lemma in ... if lemma not in stopwords]
RECURSIVE not_in_stopwords(_, _)
not_in_stopwords(ls, stopwords) ==
    IF ls = <<>> THEN <<>>
    ELSE (IF Head(ls) \in stopwords THEN <<>> ELSE <<Head(ls)>>)
         \o not_in_stopwords(Tail(ls), stopwords)

\* 1000 * math.log(n, 2), to the nearest integer, for n = 1..16
Log2Milli ==
    <<0, 1000, 1585, 2000, 2322, 2585, 2807, 3000,
      3170, 3322, 3459, 3585, 3700, 3807, 3907, 4000>>

RECURSIVE SumOverSet(_, _, _)
SumOverSet(S, kept, n) ==
    IF S = {} THEN 0
    ELSE LET l == CHOOSE x \in S : TRUE
             c == Count(kept, l)
         IN  c * (Log2Milli[n] - Log2Milli[c]) + SumOverSet(S \ {l}, kept, n)

\* a mutant of entropy_sum: the total len(lemmas) is divided by before the sum
\* is taken, so that no retained lemma is a ZeroDivisionError
entropy_sum_eager(kept) ==
    IF kept = <<>> THEN [error |-> "ZeroDivisionError"]
    ELSE Rat(SumOverSet(Range(kept), kept, Len(kept)) \div Len(kept), 1000)

\* sum(-(count / len(lemmas) * math.log(count / len(lemmas), 2))
\*     for count in counts.values()): the int 0 when there is no count, since
\* the generator then never divides
entropy_sum(kept) ==
    IF kept = <<>> THEN IntV(0)
    ELSE Rat(SumOverSet(Range(kept), kept, Len(kept)) \div Len(kept), 1000)

\* round(number, places) of an int or a float
round_number(v, places) ==
    IF "int" \in DOMAIN v THEN v ELSE round(v, places)

ShannonEntropy_get_columns(args) == <<"shannon_entropy">>

\* the body of ShannonEntropy.process_document on the cache
ShannonEntropy_body(doc, precision, stopwords, cache) ==
    LET words == findall_words(doc.text, 1, <<>>)
        r == lemmatize_all(words, cache, <<>>, FALSE)
        total == entropy_sum(not_in_stopwords(r.lemmas, stopwords))
        called == IF r.missed THEN {"textblob"} ELSE {}
    IN  IF "error" \in DOMAIN total
        THEN Raised(total.error, called, r.cache)
        ELSE Returned(doc.index \o <<round_number(total, precision.places)>>,
                      called, r.cache)

ShannonEntropy_process_document(doc, precision, stopwords) ==
    check_nltk(check_textblob(
        ShannonEntropy_body(doc, precision, stopwords, lemmas)))

-----------------------------------------------------------------------------
(* SentenceLength.  sentences is what textblob.TextBlob(doc.text).sentences  *)
(* holds: for each sentence, len(sentence.words).                           *)

SentenceLength_get_columns(args) == <<"sentence_length">>

\* a mutant of filter_length: the threshold is compared with the mean before
\* it is rounded
filter_length_unrounded(mean, precision, threshold) ==
    LET sentence_length ==
            IF precision.truthy THEN round(mean, precision.places) ELSE mean
    IN  IF threshold = 0 \/ FloatLess(mean, threshold)
        THEN sentence_length ELSE None

\* lines 275-286: the value of the row for the mean words per sentence
filter_length(mean, precision, threshold) ==
    LET sentence_length ==
            IF precision.truthy THEN round(mean, precision.places) ELSE mean
    IN  IF threshold = 0 \/ FloatLess(sentence_length, threshold)
        THEN sentence_length ELSE None

SentenceLength_process_document(doc, precision, threshold, sentences) ==
    check_nltk(check_textblob(
        IF Len(sentences) = 0
        THEN Returned(doc.index \o <<None>>, {"textblob"}, lemmas)
        ELSE Returned(doc.index
                        \o <<filter_length(
                               Rat(Sum(sentences), Len(sentences)),
                               precision, threshold)>>,
                      {"textblob"}, lemmas)))

-----------------------------------------------------------------------------
(* SentimentAnalysis.  sentiment is what textblob.TextBlob(doc.text) scores: *)
(* its polarity and its subjectivity.                                       *)

SentimentAnalysis_get_columns(args) ==
    IF args.backend = "textblob"
    THEN <<"sentiment_polarity", "sentiment_subjectivity">>
    ELSE "NotImplementedError"

SentimentAnalysis_process_document(doc, backend, precision, sentiment) ==
    check_nltk(check_textblob(
        IF backend = "textblob"
        THEN IF precision.truthy
             THEN Returned(doc.index
                             \o <<round(sentiment.polarity, precision.places),
                                  round(sentiment.subjectivity, precision.places)>>,
                           {"textblob"}, lemmas)
             ELSE Returned(doc.index
                             \o <<sentiment.polarity, sentiment.subjectivity>>,
                           {"textblob"}, lemmas)
        ELSE ReturnedNone({}, lemmas)))

-----------------------------------------------------------------------------
(* FleschReadingEase and TextStandard.  score is what the textstat call     *)
(* returns for doc.text.                                                    *)

FleschReadingEase_get_columns(args) == <<"flesch_reading_ease">>

\* a mutant of filter_score: a score equal to the threshold passes
filter_score_geq(score, threshold) ==
    IF threshold = 0 \/ ~FloatLess(score, threshold)
    THEN IntV(int_of_float(score)) ELSE None

\* lines 366-369: the value of the row for the score
filter_score(score, threshold) ==
    IF threshold = 0 \/ FloatGreater(score, threshold)
    THEN IntV(int_of_float(score)) ELSE None

FleschReadingEase_process_document(doc, threshold, score) ==
    check_textstat(
        Returned(doc.index \o <<filter_score(score, threshold)>>,
                 {"textstat"}, lemmas))

TextStandard_get_columns(args) == <<"text_standard">>

TextStandard_process_document(doc, score) ==
    check_textstat(Returned(doc.index \o <<score>>, {"textstat"}, lemmas))

-----------------------------------------------------------------------------
(* The dispatcher: it looks a command up in the registry, feeds one         *)
(* document to its process_document and collects the row.                   *)

Idle == [state |-> "idle"]

NoService == [none |-> TRUE]

\* service is what the external services answer for doc.text in this call
Run(cmd, doc, args, service, res) ==
    /\ phase = "loaded"
    /\ call = Idle
    /\ cmd \in commands
    /\ call' = [state |-> "done", cmd |-> cmd, doc |-> doc, args |-> args,
                service |-> service, res |-> res, before |-> lemmas]
    /\ lemmas' = res.lemmas
    /\ UNCHANGED <<phase, NLTK, textblob, textstat, commands, threads>>

\* the dispatcher feeds a document only when it holds no uncollected row
Ready == phase = "loaded" /\ call = Idle

Collect ==
    /\ call # Idle
    /\ call' = Idle
    /\ UNCHANGED <<phase, NLTK, textblob, textstat, commands, lemmas, threads>>

count_words(doc) ==
    Run("count_words", doc, [word_pattern |-> "\\b\\w+\\b"], NoService,
        WordCounter_process_document(doc))

count_occurrences(doc, terms, total_label) ==
    Run("count_occurrences", doc,
        [terms |-> terms, total_label |-> total_label], NoService,
        OccurrenceCounter_process_document(doc, terms, total_label))

count_conditionals(doc) ==
    Run("count_conditionals", doc, [none |-> TRUE], NoService,
        ConditionalCounter_process_document(doc))

count_distributional_phrases(doc) ==
    Run("count_distributional_phrases", doc, [none |-> TRUE], NoService,
        DistributionalPhraseCounter_process_document(doc))

shannon_entropy(doc, precision, stopwords) ==
    Run("shannon_entropy", doc,
        [word_pattern |-> "\\b\\w+\\b", precision |-> precision,
         stopwords |-> stopwords], NoService,
        ShannonEntropy_process_document(doc, precision, stopwords))

sentence_length(doc, precision, threshold, sentences) ==
    Run("sentence_length", doc,
        [precision |-> precision, threshold |-> threshold],
        [sentences |-> sentences],
        SentenceLength_process_document(doc, precision, threshold, sentences))

sentiment_analysis(doc, backend, precision, sentiment) ==
    Run("sentiment_analysis", doc,
        [backend |-> backend, precision |-> precision],
        [sentiment |-> sentiment],
        SentimentAnalysis_process_document(doc, backend, precision, sentiment))

flesch_reading_ease(doc, threshold, score) ==
    Run("flesch_reading_ease", doc, [threshold |-> threshold],
        [score |-> score],
        FleschReadingEase_process_document(doc, threshold, score))

text_standard(doc, score) ==
    Run("text_standard", doc, [none |-> TRUE], [score |-> score],
        TextStandard_process_document(doc, score))

AllCommands ==
    {"count_words", "count_occurrences", "shannon_entropy",
     "count_conditionals", "sentence_length", "sentiment_analysis",
     "flesch_reading_ease", "text_standard", "count_distributional_phrases"}

\* the module as a successful import with every service installed leaves it
InitLoaded ==
    /\ phase = "loaded"
    /\ NLTK = TRUE
    /\ textblob = TRUE
    /\ textstat = TRUE
    /\ commands = AllCommands
    /\ lemmas = EmptyCache
    /\ call = Idle
    /\ threads = <<>>

-----------------------------------------------------------------------------
(* The import of the module, lines 12-35 and the class bodies.  env is what *)
(* the machine holds: which packages import, whether WordNet loads or can   *)
(* be downloaded, whether the stopwords corpus is installed.                *)

\* the commands registered before the body of class ShannonEntropy runs
RegisteredBeforeShannonEntropy == {"count_words", "count_occurrences"}

import_module(env) ==
    IF env.nltk /\ ~env.wordnet /\ ~env.download
    THEN \* line 33: the second ensure_loaded() raises LookupError
         [phase |-> "import_failed", NLTK |-> TRUE, textblob |-> env.textblob,
          textstat |-> env.textstat, commands |-> {}]
    ELSE IF env.nltk /\ ~env.stopwords
    THEN \* line 164: nltk.corpus.stopwords.words('english') raises LookupError
         [phase |-> "import_failed", NLTK |-> TRUE, textblob |-> env.textblob,
          textstat |-> env.textstat, commands |-> RegisteredBeforeShannonEntropy]
    ELSE [phase |-> "loaded", NLTK |-> env.nltk, textblob |-> env.textblob,
          textstat |-> env.textstat, commands |-> AllCommands]

Environments ==
    [nltk : BOOLEAN, textblob : BOOLEAN, textstat : BOOLEAN,
     wordnet : BOOLEAN, download : BOOLEAN, stopwords : BOOLEAN]

Import ==
    /\ phase = "boot"
    /\ \E env \in Environments :
          LET m == import_module(env)
          IN  /\ phase' = m.phase
              /\ NLTK' = m.NLTK
              /\ textblob' = m.textblob
              /\ textstat' = m.textstat
              /\ commands' = m.commands
    /\ UNCHANGED <<lemmas, call, threads>>

\* the process before the module is imported
Init ==
    /\ phase = "boot"
    /\ NLTK = FALSE
    /\ textblob = FALSE
    /\ textstat = FALSE
    /\ commands = {}
    /\ lemmas = EmptyCache
    /\ call = Idle
    /\ threads = <<>>

-----------------------------------------------------------------------------
(* The nine analyzers run on bounded documents under every start-up *)

TotalLabels == {None, StrV("total")}
Indexes == {<<Key("doc1")>>, <<Key("title"), Key("part")>>}
SmallTexts ==
    {<<>>, <<"a">>, <<"a", "s", " ", "a">>, <<"I", "f", " ", "a">>,
     <<"i", "f", "\n", "a", "s">>}
SmallDocs == [index : Indexes, text : SmallTexts]
SmallTermLists ==
    {<<<<"a">>>>, <<<<"a">>, <<"a", "s", " ", "a">>>>,
     <<<<"a", "s", " ", "a">>, <<"a">>>>}
StopwordSets == {{}, {<<"a">>}}
SmallPrecisions == {PrecInt(0), PrecInt(2)}
SmallSentences == {<<>>, <<1>>, <<2, 1>>}
SmallThresholds == {0, 1}
Backends == {"textblob", "vader"}
Sentiments ==
    {[polarity |-> Rat(-1, 3), subjectivity |-> Rat(2, 3)],
     [polarity |-> Rat(0, 1), subjectivity |-> Rat(0, 1)]}
SmallScores == {Rat(1, 1), Rat(3, 2)}
Grades == {StrV("5th and 6th grade"), Rat(7, 1)}

Next ==
    \/ Import
    \/ /\ Ready
       /\ \E doc \in SmallDocs : count_words(doc)
    \/ /\ Ready
       /\ \E doc \in SmallDocs, terms \in SmallTermLists, label \in TotalLabels :
             count_occurrences(doc, terms, label)
    \/ /\ Ready
       /\ \E doc \in SmallDocs, precision \in SmallPrecisions,
               stopwords \in StopwordSets :
             shannon_entropy(doc, precision, stopwords)
    \/ /\ Ready
       /\ \E doc \in SmallDocs : count_conditionals(doc)
    \/ /\ Ready
       /\ \E doc \in SmallDocs, precision \in SmallPrecisions,
               threshold \in SmallThresholds, sentences \in SmallSentences :
             sentence_length(doc, precision, threshold, sentences)
    \/ /\ Ready
       /\ \E doc \in SmallDocs, backend \in Backends,
               precision \in SmallPrecisions, sentiment \in Sentiments :
             sentiment_analysis(doc, backend, precision, sentiment)
    \/ /\ Ready
       /\ \E doc \in SmallDocs, threshold \in SmallThresholds,
               score \in SmallScores :
             flesch_reading_ease(doc, threshold, score)
    \/ /\ Ready
       /\ \E doc \in SmallDocs, score \in Grades : text_standard(doc, score)
    \/ /\ Ready
       /\ \E doc \in SmallDocs : count_distributional_phrases(doc)
    \/ Collect

Spec == Init /\ [][Next]_vars

-----------------------------------------------------------------------------
(* count_occurrences over bounded texts and term lists *)

Doc(text) == [index |-> <<Key("doc1")>>, text |-> text]

OccAlphabet == {"a", "b", " ", "A"}
OccTermPool == {<<"a">>, <<"a", " ", "a">>, <<"b">>}

Tax == <<"t", "a", "x">>
TaxCredit == <<"t", "a", "x", " ", "c", "r", "e", "d", "i", "t">>
\* 'A tax credit is a tax.'
TaxText ==
    <<"A", " ">> \o TaxCredit \o <<" ", "i", "s", " ", "a", " ">> \o Tax \o <<".">>

OccTexts == SeqsUpTo(OccAlphabet, MaxTextLen) \cup {TaxText}
OccTermLists ==
    (SeqsUpTo(OccTermPool, MaxTerms) \ {<<>>})
        \cup {<<Tax, TaxCredit>>, <<TaxCredit, Tax>>}

NextOcc ==
    \/ /\ Ready
       /\ \E text \in OccTexts, terms \in OccTermLists, label \in TotalLabels :
             count_occurrences(Doc(text), terms, label)
    \/ Collect

SpecOcc == InitLoaded /\ [][NextOcc]_vars

-----------------------------------------------------------------------------
(* count_conditionals over bounded texts *)

\* 'If it rains, but not too much, proceed unless told otherwise.'
RainText ==
    <<"I", "f", " ", "i", "t", " ", "r", "a", "i", "n", "s", ",", " ", "b",
      "u", "t", " ", "n", "o", "t", " ", "t", "o", "o", " ", "m", "u", "c",
      "h", ",", " ", "p", "r", "o", "c", "e", "e", "d", " ", "u", "n", "l",
      "e", "s", "s", " ", "t", "o", "l", "d", " ", "o", "t", "h", "e", "r",
      "w", "i", "s", "e", ".">>

CondPieces ==
    {<<"i", "f">>, <<"I", "f">>, <<"w", "h", "e", "n">>, <<"e", "v", "e", "r">>,
     <<"i", "n">>, <<" ", "t", "h", "e">>, <<"\n", "e", "v", "e", "n", "t">>,
     <<" ">>, <<"s">>, <<",">>}

CondTexts == {Concat(ps) : ps \in SeqsUpTo(CondPieces, MaxPieces)} \cup {RainText}

NextCond ==
    \/ /\ Ready
       /\ \E text \in CondTexts : count_conditionals(Doc(text))
    \/ Collect

SpecCond == InitLoaded /\ [][NextCond]_vars

-----------------------------------------------------------------------------
(* sentence_length and flesch_reading_ease over bounded service answers *)

SentenceLists == SeqsUpTo(0..MaxSentenceWords, MaxSentences)
Precisions == {PrecInt(p) : p \in 0..MaxPrecision} \cup {PrecStr(0)}
Thresholds == (-1)..MaxThreshold

NextSL ==
    \/ /\ Ready
       /\ \E precision \in Precisions, threshold \in Thresholds,
               sentences \in SentenceLists :
             sentence_length(Doc(<<"a">>), precision, threshold, sentences)
    \/ Collect

SpecSL == InitLoaded /\ [][NextSL]_vars

Scores == {Rat(n, ScoreDen) : n \in (-MaxScore * ScoreDen)..(MaxScore * ScoreDen)}
ScoreThresholds == (-MaxScore)..MaxScore

NextFlesch ==
    \/ /\ Ready
       /\ \E threshold \in ScoreThresholds, score \in Scores :
             flesch_reading_ease(Doc(<<"a">>), threshold, score)
    \/ Collect

SpecFlesch == InitLoaded /\ [][NextFlesch]_vars

-----------------------------------------------------------------------------
(* shannon_entropy run by worker threads that share ShannonEntropy.lemmas.   *)
(* A thread switch may fall between any two lines of lemmatize; one dict    *)
(* operation is atomic.                                                     *)

Threads == {"t1", "t2"}

CacheTexts ==
    {<<"a">>, <<"a", "s", " ", "a">>, <<"a", "s", " ", "b">>}

IdleThread(n) == [pc |-> "idle", calls |-> n]

\* the word the thread is lemmatizing
WordOf(th) == th.words[th.i]

\* lemmatize returned lemma: the comprehension takes the next word, or ends
Advance(th, lemma) ==
    [th EXCEPT !.acc = Append(th.acc, lemma),
               !.i = th.i + 1,
               !.pc = IF th.i + 1 > Len(th.words) THEN "finish" ELSE "test"]

\* process_document is entered: the gates, then words = findall(doc.text)
Start(t, doc, precision, stopwords) ==
    /\ phase = "loaded"
    /\ threads[t].pc = "idle"
    /\ threads[t].calls < MaxCalls
    /\ LET words == findall_words(doc.text, 1, <<>>)
       IN  threads' = [threads EXCEPT ![t] =
               [pc |-> IF ~NLTK \/ ~textblob THEN "raised"
                       ELSE IF words = <<>> THEN "finish" ELSE "test",
                calls |-> threads[t].calls, doc |-> doc,
                precision |-> precision, stopwords |-> stopwords,
                words |-> words, i |-> 1, acc |-> <<>>, lemma |-> <<>>,
                row |-> <<>>]]
    /\ UNCHANGED <<phase, NLTK, textblob, textstat, commands, lemmas, call>>

\* line 201: if word in ShannonEntropy.lemmas
Test(t) ==
    /\ threads[t].pc = "test"
    /\ threads' = [threads EXCEPT ![t].pc =
                      IF WordOf(threads[t]) \in DOMAIN lemmas
                      THEN "read" ELSE "call"]
    /\ UNCHANGED <<phase, NLTK, textblob, textstat, commands, lemmas, call>>

\* line 202: lemma = ShannonEntropy.lemmas[word]
Read(t) ==
    /\ threads[t].pc = "read"
    /\ threads' = [threads EXCEPT ![t] =
                      Advance(threads[t], lemmas[WordOf(threads[t])])]
    /\ UNCHANGED <<phase, NLTK, textblob, textstat, commands, lemmas, call>>

\* line 204: lemma = textblob.Word(word).lemmatize()
CallLemmatizer(t) ==
    /\ threads[t].pc = "call"
    /\ threads' = [threads EXCEPT ![t].lemma = Word_lemmatize(WordOf(threads[t])),
                                  ![t].pc = "store"]
    /\ UNCHANGED <<phase, NLTK, textblob, textstat, commands, lemmas, call>>

\* lines 205-206: ShannonEntropy.lemmas[word] = lemma; return lemma
Store(t) ==
    /\ threads[t].pc = "store"
    /\ lemmas' = CacheStore(lemmas, WordOf(threads[t]), threads[t].lemma)
    /\ threads' = [threads EXCEPT ![t] = Advance(threads[t], threads[t].lemma)]
    /\ UNCHANGED <<phase, NLTK, textblob, textstat, commands, call>>

\* lines 192-198: the stopwords are dropped, the entropy is taken and rounded
Finish(t) ==
    /\ threads[t].pc = "finish"
    /\ LET th == threads[t]
           total == entropy_sum(not_in_stopwords(th.acc, th.stopwords))
       IN  threads' = [threads EXCEPT
               ![t].pc = "done",
               ![t].row = th.doc.index
                            \o <<round_number(total, th.precision.places)>>]
    /\ UNCHANGED <<phase, NLTK, textblob, textstat, commands, lemmas, call>>

\* the worker hands the row over and is free for its next document
Return(t) ==
    /\ threads[t].pc = "done"
    /\ threads' = [threads EXCEPT ![t] = IdleThread(threads[t].calls + 1)]
    /\ UNCHANGED <<phase, NLTK, textblob, textstat, commands, lemmas, call>>

InitCache ==
    /\ phase = "loaded"
    /\ NLTK = TRUE
    /\ textblob = TRUE
    /\ textstat = TRUE
    /\ commands = AllCommands
    /\ lemmas = EmptyCache
    /\ call = Idle
    /\ threads = [t \in Threads |-> IdleThread(0)]

NextCache ==
    \E t \in Threads :
        \/ \E text \in CacheTexts, stopwords \in StopwordSets :
              Start(t, Doc(text), PrecInt(2), stopwords)
        \/ Test(t)
        \/ Read(t)
        \/ CallLemmatizer(t)
        \/ Store(t)
        \/ Finish(t)
        \/ Return(t)

SpecCache == InitCache /\ [][NextCache]_vars

-----------------------------------------------------------------------------
(* What the claims read of a collected call *)

CallIs(cmd) == call # Idle /\ call.cmd = cmd
ReturnedRow == call # Idle /\ call.res.outcome = "row"
\* the values that follow doc.index in the row
Metrics == SubSeq(call.res.row, Len(call.doc.index) + 1, Len(call.res.row))

RECURSIVE SumInts(_)
SumInts(vs) == IF vs = <<>> THEN 0 ELSE Head(vs).int + SumInts(Tail(vs))

\* the positions at which t occurs as a whole word in text
WholeWordOccurrences(t, text) ==
    {p \in 1..Len(text) : TermMatchesAt(t, text, p)}

\* s occurs in l and is shorter
ContainedIn(s, l) ==
    /\ Len(s) < Len(l)
    /\ \E p \in 1..(Len(l) - Len(s) + 1) : SubSeq(l, p, p + Len(s) - 1) = s

\* the orders in which a caller can list the same terms
Reorderings(terms) ==
    LET n == Len(terms)
        bij == {f \in [1..n -> 1..n] : \A i, j \in 1..n : f[i] = f[j] => i = j}
    IN  {[i \in 1..n |-> terms[f[i]]] : f \in bij}

TaxExample ==
    /\ CallIs("count_occurrences")
    /\ call.doc.text = TaxText
    /\ Range(call.args.terms) = {Tax, TaxCredit}
    /\ Len(call.args.terms) = 2
    /\ call.args.total_label # None

\* the row of the example: one 'tax', one 'tax credit', total 2
TaxExampleRow == Metrics = <<IntV(1), IntV(1), IntV(2)>>

\* C4 as claimed: when a listed term is contained in a longer listed term,
\* every whole-word occurrence of the longer term in the normalized text is
\* tallied once for the longer term and none for the shorter one inside it,
\* in whatever order the terms are listed; the 'tax' example gives 1, 1, 2.
C4_EveryOccurrenceOfLongerTermTallied ==
    CallIs("count_occurrences") =>
        LET terms == call.args.terms
            text == normalized(call.doc)
            matches == term_matches(call.doc, terms)
        IN  /\ TaxExample => TaxExampleRow
            /\ \A i, j \in DOMAIN terms :
                 ContainedIn(terms[i], terms[j]) =>
                   \A p \in WholeWordOccurrences(terms[j], text) :
                      /\ \E k \in DOMAIN matches :
                            matches[k] = [start |-> p, match |-> terms[j]]
                      /\ ~ \E k \in DOMAIN matches :
                            /\ matches[k].match = terms[i]
                            /\ matches[k].start >= p
                            /\ matches[k].start < p + Len(terms[j])

\* a position the left-to-right scan reaches: none inside an earlier match
ScanReaches(matches, p) ==
    ~ \E k \in DOMAIN matches :
         /\ matches[k].start < p
         /\ p < matches[k].start + Len(matches[k].match)

\* C4 amended: when a listed term is contained in a longer listed term, every
\* whole-word occurrence of the longer term that starts where the scan reaches
\* is tallied once, for a term at least as long as it and never for a shorter
\* one; the tallies do not depend on the order of the list; the 'tax' example
\* gives 1, 1, 2.
C4_LongestTermTalliedWhereScanReaches ==
    CallIs("count_occurrences") =>
        LET terms == call.args.terms
            text == normalized(call.doc)
            matches == term_matches(call.doc, terms)
        IN  /\ TaxExample => TaxExampleRow
            /\ \A i, j \in DOMAIN terms :
                 ContainedIn(terms[i], terms[j]) =>
                   \A p \in WholeWordOccurrences(terms[j], text) :
                      ScanReaches(matches, p) =>
                        /\ Cardinality({k \in DOMAIN matches :
                                           matches[k].start = p}) = 1
                        /\ \A k \in DOMAIN matches :
                              matches[k].start = p =>
                                 Len(matches[k].match) >= Len(terms[j])
            /\ \A other \in Reorderings(terms) :
                 \A i \in DOMAIN terms :
                    Metrics[i].int
                       = term_count(term_matches(call.doc, other), terms[i])

\* a longer term and a term it contains are listed shorter first, and the
\* longer term is tallied where both match
C4_Witness ==
    /\ CallIs("count_occurrences")
    /\ Len(call.args.terms) = 2
    /\ ContainedIn(call.args.terms[1], call.args.terms[2])
    /\ Metrics[2].int >= 1
    /\ Metrics[1].int >= 1

\* C5 as claimed: with a total label, the last value of the row is the sum
\* of the per-term values of the row, and a term that does not occur counts 0.
C5_TotalIsSumOfRowCounts ==
    (CallIs("count_occurrences") /\ call.args.total_label # None) =>
        LET n == Len(call.args.terms)
        IN  /\ Len(Metrics) = n + 1
            /\ Metrics[n + 1].int = SumInts(SubSeq(Metrics, 1, n))
            /\ \A i \in 1..n :
                 WholeWordOccurrences(call.args.terms[i], normalized(call.doc)) = {}
                    => Metrics[i] = IntV(0)

RECURSIVE SumOverTerms(_, _, _)
SumOverTerms(ts, terms, vs) ==
    IF ts = {} THEN 0
    ELSE LET t == CHOOSE x \in ts : TRUE
             i == CHOOSE k \in DOMAIN terms : terms[k] = t
         IN  vs[i].int + SumOverTerms(ts \ {t}, terms, vs)

\* C5 amended: with a total label, the last value of the row is the sum of the
\* per-term values taken once for each distinct listed term (a term listed
\* twice fills two columns and is summed once), and a term that does not occur
\* counts 0.
C5_TotalIsSumOverDistinctTerms ==
    (CallIs("count_occurrences") /\ call.args.total_label # None) =>
        LET n == Len(call.args.terms)
        IN  /\ Len(Metrics) = n + 1
            /\ Metrics[n + 1].int
                 = SumOverTerms(Range(call.args.terms), call.args.terms, Metrics)
            /\ \A i \in 1..n :
                 WholeWordOccurrences(call.args.terms[i], normalized(call.doc)) = {}
                    => Metrics[i] = IntV(0)

\* a total over two distinct terms of which one occurs and one does not
C5_Witness ==
    /\ CallIs("count_occurrences")
    /\ call.args.total_label # None
    /\ Len(call.args.terms) = 2
    /\ call.args.terms[1] # call.args.terms[2]
    /\ Metrics[1].int >= 1
    /\ Metrics[2] = IntV(0)
    /\ Metrics[3].int >= 1

\* the positions of text at which a listed connective occurs as a whole word,
\* in the case the pattern lists it in
ConnectiveOccurrences(text) ==
    {p \in 1..Len(text) :
        \E i \in DOMAIN conditional_alternatives :
           AlternativeMatchesAt(conditional_alternatives[i], text, p) # 0}

\* C6 as claimed: the count is the number of whole-word occurrences of the
\* listed connectives in the text with its lines joined by single spaces, and
\* the 'If it rains' text counts 3.
C6_RainTextCountsThree ==
    CallIs("count_conditionals") =>
        /\ Metrics = <<IntV(Cardinality(ConnectiveOccurrences(
                                 splitlines_join(call.doc.text))))>>
        /\ call.doc.text = RainText => Metrics = <<IntV(3)>>

\* C6 amended: the count is the number of whole-word occurrences of the listed
\* connectives, in lower case as listed, in the text with its lines joined by
\* single spaces, and the 'If it rains' text counts 2 ('but' and 'unless'; the
\* capitalised 'If' does not match).
C6_RainTextCountsTwo ==
    CallIs("count_conditionals") =>
        /\ Metrics = <<IntV(Cardinality(ConnectiveOccurrences(
                                 splitlines_join(call.doc.text))))>>
        /\ call.doc.text = RainText => Metrics = <<IntV(2)>>

\* the 'If it rains' text has been counted
C6_Witness ==
    /\ CallIs("count_conditionals")
    /\ call.doc.text = RainText
    /\ ReturnedRow

\* a connective split over a line break has been counted
C6_WitnessLineBreak ==
    /\ CallIs("count_conditionals")
    /\ call.doc.text = <<"i", "n", " ", "t", "h", "e", "\n", "e", "v", "e", "n", "t">>
    /\ Metrics = <<IntV(1)>>

-----------------------------------------------------------------------------
(* The contract of the analyzers *)

\* get_columns of the class registered under cmd
GetColumns(cmd, args) ==
    CASE cmd = "count_words" -> WordCounter_get_columns(args)
      [] cmd = "count_occurrences" -> OccurrenceCounter_get_columns(args)
      [] cmd = "shannon_entropy" -> ShannonEntropy_get_columns(args)
      [] cmd = "count_conditionals" -> ConditionalCounter_get_columns(args)
      [] cmd = "sentence_length" -> SentenceLength_get_columns(args)
      [] cmd = "sentiment_analysis" -> SentimentAnalysis_get_columns(args)
      [] cmd = "flesch_reading_ease" -> FleschReadingEase_get_columns(args)
      [] cmd = "text_standard" -> TextStandard_get_columns(args)
      [] cmd = "count_distributional_phrases" ->
            DistributionalPhraseCounter_get_columns(args)

\* a configuration for which get_columns returns columns
ValidConfiguration ==
    call.cmd = "sentiment_analysis" => call.args.backend = "textblob"

\* C1: for each of the nine analyzers and every valid configuration, a call
\* that returns returns a row: doc.index, unchanged and in order, followed by
\* exactly len(get_columns(config)) values.
C1_RowIsIndexThenOneValuePerColumn ==
    (call # Idle /\ ValidConfiguration /\ call.res.outcome # "raise") =>
        /\ call.res.outcome = "row"
        /\ Len(call.res.row) >= Len(call.doc.index)
        /\ SubSeq(call.res.row, 1, Len(call.doc.index)) = call.doc.index
        /\ Len(call.res.row) - Len(call.doc.index)
             = Len(GetColumns(call.cmd, call.args))

\* the occurrence counter has returned a row with a total for a document
\* with a two-part index
C1_Witness ==
    /\ CallIs("count_occurrences")
    /\ call.args.total_label # None
    /\ Len(call.args.terms) = 2
    /\ Len(call.doc.index) = 2
    /\ Len(call.res.row) = 5

\* the services whose gates decorate process_document of the class under cmd
GatedOn(cmd) ==
    CASE cmd \in {"shannon_entropy", "sentence_length", "sentiment_analysis"}
            -> {"NLTK", "textblob"}
      [] cmd \in {"flesch_reading_ease", "text_standard"} -> {"textstat"}
      [] OTHER -> {}

\* the services flagged absent
Absent ==
    (IF NLTK THEN {} ELSE {"NLTK"})
        \cup (IF textblob THEN {} ELSE {"textblob"})
        \cup (IF textstat THEN {} ELSE {"textstat"})

CapabilityErrors ==
    {"Must install NLTK", "Must install textblob", "Must install teststat"}

\* C2: a call of a gated analyzer while a service it is gated on is flagged
\* absent raises the capability error, returns no row, calls no external
\* service and leaves the lemma cache as it was; every such call does.
C2_GatedCallRaisesBeforeAnyWork ==
    (call # Idle /\ GatedOn(call.cmd) \cap Absent # {}) =>
        /\ call.res.outcome = "raise"
        /\ call.res.error \in CapabilityErrors
        /\ call.res.row = <<>>
        /\ call.res.called = {}
        /\ call.res.lemmas = call.before
        /\ lemmas = call.before

\* the entropy analyzer has raised for a missing NLTK while textblob is present
C2_Witness ==
    /\ CallIs("shannon_entropy")
    /\ ~NLTK
    /\ textblob
    /\ call.doc.text # <<>>
    /\ call.res.outcome = "raise"

\* C3 as claimed: under every combination of the three flags all nine
\* commands are registered, a call fails only when a service its analyzer is
\* gated on is absent, and an analyzer whose services are present returns a row.
C3_AllRegisteredAndFailuresIsolated ==
    phase # "boot" =>
        /\ commands = AllCommands
        /\ call # Idle =>
             /\ call.res.outcome = "raise" => GatedOn(call.cmd) \cap Absent # {}
             /\ (GatedOn(call.cmd) \cap Absent = {} /\ ValidConfiguration)
                   => call.res.outcome = "row"

\* the lemmas of the words of text are all stopwords (or there is no word)
NoLemmaRetained(text, stopwords) ==
    \A w \in Range(findall_words(text, 1, <<>>)) : Word_lemmatize(w) \in stopwords

\* C10: with every capability present a degenerate document does not make
\* process_document raise: no sentence gives the null sentinel in
\* sentence_length, no retained lemma gives a row holding a value in
\* shannon_entropy.
C10_DegenerateDocumentsReturnRows ==
    (call # Idle /\ NLTK /\ textblob /\ textstat) =>
        /\ (call.cmd = "sentence_length" /\ call.service.sentences = <<>>)
              => (call.res.outcome = "row" /\ Metrics = <<None>>)
        /\ (call.cmd = "shannon_entropy"
              /\ NoLemmaRetained(call.doc.text, call.args.stopwords))
              => (call.res.outcome = "row" /\ Len(Metrics) = 1
                    /\ Metrics[1] # None)

\* the entropy analyzer has returned for a text whose only lemma is a stopword
C10_Witness ==
    /\ CallIs("shannon_entropy")
    /\ call.doc.text = <<"a">>
    /\ call.args.stopwords = {<<"a">>}
    /\ call.res.outcome = "row"

-----------------------------------------------------------------------------
(* The threshold filters *)

IntegerPart(x) ==
    CHOOSE k \in (-Abs(x.num))..Abs(x.num) :
        /\ Abs(k) * x.den <= Abs(x.num)
        /\ Abs(x.num) < (Abs(k) + 1) * x.den
        /\ (k < 0 => x.num < 0)
        /\ (k > 0 => x.num > 0)

-----------------------------------------------------------------------------
(* The lemma cache under concurrent calls *)

\* every entry of the cache maps a word to that word's lemma
CacheHoldsLemmas == \A w \in DOMAIN lemmas : lemmas[w] = Word_lemmatize(w)

\* the row process_document returns when run alone on an empty cache
RowAlone(doc, precision, stopwords) ==
    ShannonEntropy_body(doc, precision, stopwords, EmptyCache).row

\* every call that has returned returned the row it returns alone
RowsAsAlone ==
    \A t \in DOMAIN threads :
        threads[t].pc = "done" =>
            threads[t].row = RowAlone(threads[t].doc, threads[t].precision,
                                      threads[t].stopwords)

\* a step removes no entry of the cache and changes none
CacheOnlyGrows ==
    \A w \in DOMAIN lemmas : w \in DOMAIN lemmas' /\ lemmas'[w] = lemmas[w]

\* C9: under every interleaving of calls that share the lemma cache, the
\* cache only grows, every entry maps a word to its lemma and is never
\* replaced by another value, and each call returns the row it returns when
\* run alone on an empty cache (so a call on a warm cache returns the row of
\* the cold call).
C9_CacheRaceIsBenign ==
    [](CacheHoldsLemmas /\ RowsAsAlone) /\ [][CacheOnlyGrows]_vars

\* two calls missed on the same word: one has returned its row on its second,
\* warm call while the other is still about to store the lemma
C9_Witness ==
    \E t, u \in DOMAIN threads :
        /\ t # u
        /\ threads[t].pc = "done"
        /\ threads[t].calls = 1
        /\ threads[u].pc = "store"
        /\ WordOf(threads[u]) \in DOMAIN lemmas
        /\ WordOf(threads[u]) \in Range(threads[t].words)

=============================================================================
